---- MODULE Spec2Model ----
(***************************************************************************)
(* Lumeo: the Saavn API client (SaavnApiService), its error taxonomy, and  *)
(* the music player reducer (musicPlayerReducer).                          *)
(*                                                                         *)
(* Time is counted in ticks of the millisecond clock Date.now().  Strings  *)
(* that are only tested for emptiness, trimmed and measured are kept as    *)
(* [lead, core, trail]: the number of leading whitespace characters, the   *)
(* length from the first to the last non-whitespace character, and the     *)
(* number of trailing whitespace characters.                               *)
(***************************************************************************)
EXTENDS Integers, Sequences, FiniteSets, TLC

VARIABLES config, now, lastRequestTime, call, requests, upstream, state,
          proxy, hook, loader, audio

vars ==
  <<config, now, lastRequestTime, call, requests, upstream, state,
    proxy, hook, loader, audio>>

apiVars == <<config, now, lastRequestTime, call, requests, upstream>>

\* the proxy function, a useApiCall hook, playTrack and the NowPlaying audio
uiVars == <<proxy, hook, loader, audio>>

(***************************************************************************)
(* Bounds of the model.                                                    *)
(***************************************************************************)
MaxRetries == 3

MaxRetryDelay == 1

MaxRateLimitDelay == 2

\* the retries configured where two calls are followed together
MaxConcurrentRetries == 1

\* the longest queue and the longest history the player is followed to
MaxQueue == 2

MaxHistory == 2

\* how long after the program's start new calls are still issued
MaxIdle == 2

\* how many distinct tracks are played one after the other
MaxTracks == 52

\* how many tracks are queued one after the other
MaxQueued == 14

\* how many times execute of one useApiCall hook is called
MaxExecutes == 5

\* Date.now() when the client is constructed: long after the epoch
StartTime == MaxRateLimitDelay

MaxTime == StartTime + MaxIdle

\* the two asynchronous calls that may be in flight on one client instance
Calls == {"c1", "c2"}

(***************************************************************************)
(* Error taxonomy (types/errors.ts).  An error is [kind, statusCode,       *)
(* message]; statusCode is 0 for the kinds that carry none.                *)
(***************************************************************************)
NoError == [kind |-> "none", statusCode |-> 0, message |-> ""]

ApiResponseError(message, statusCode) ==
  [kind |-> "ApiResponseError", statusCode |-> statusCode, message |-> message]

NetworkError(message) ==
  [kind |-> "NetworkError", statusCode |-> 0, message |-> message]

ValidationError(message) ==
  [kind |-> "ValidationError", statusCode |-> 0, message |-> message]

SaavnApiError(message) ==
  [kind |-> "SaavnApiError", statusCode |-> 0, message |-> message]

\* what fetch() itself rejects with
TypeError == [kind |-> "TypeError", statusCode |-> 0, message |-> "Failed to fetch"]

AbortError == [kind |-> "AbortError", statusCode |-> 0, message |-> "aborted"]

getUserMessage(error) ==
  CASE error.kind = "NetworkError" ->
         "Network error. Please check your connection and try again."
    [] error.kind = "ApiResponseError" ->
         IF error.statusCode = 404
         THEN "Content not found. Please check your search terms."
         ELSE IF error.statusCode = 429
         THEN "Too many requests. Please wait a moment and try again."
         ELSE IF error.statusCode >= 500
         THEN "Server error. Please try again later."
         ELSE "Request failed. Please try again."
    [] error.kind = "ValidationError" -> error.message
    [] error.kind = "SaavnApiError" -> "API request failed. Please try again."
    [] OTHER -> "An unexpected error occurred. Please try again."

(***************************************************************************)
(* Catalog operations and their arguments.                                 *)
(***************************************************************************)
SearchOps == {"search", "searchSongs", "searchAlbums", "searchArtists", "searchPlaylists"}

IdOps == {"getSong", "getSongSuggestions", "getArtistById", "getArtistSongs", "getArtistAlbums"}

IdOrLinkOps == {"getAlbum", "getArtist", "getPlaylist"}

IdsOps == {"getSongs"}

Ops == SearchOps \cup IdOps \cup IdOrLinkOps \cup IdsOps

MaxQueryLength == 100

Undefined == "undefined"

Str(lead, core, trail) == [lead |-> lead, core |-> core, trail |-> trail]

Length(s) == s.lead + s.core + s.trail

\* String.prototype.trim
trim(s) == Str(0, s.core, 0)

\* JavaScript truthiness of a string-or-undefined that is kept as a TLA+ string
Falsy(x) == x \in {Undefined, ""}

NoQuery == Str(0, 0, 0)

\* "", "  ", "a", " a..a " (100 characters between the blanks), "a..a" (101)
Queries ==
  {Str(0, 0, 0), Str(2, 0, 0), Str(0, 1, 0),
   Str(1, MaxQueryLength, 1), Str(0, MaxQueryLength + 1, 0)}

Ids == {Undefined, "", "id"}

Links == {Undefined, "link"}

IdArrays == {<< >>, <<"id">>}

Arg(query, id, link, ids) == [query |-> query, id |-> id, link |-> link, ids |-> ids]

NoArg == Arg(NoQuery, Undefined, Undefined, << >>)

Args(op) ==
  IF op \in SearchOps THEN {Arg(q, Undefined, Undefined, << >>) : q \in Queries}
  ELSE IF op \in IdOps THEN {Arg(NoQuery, i, Undefined, << >>) : i \in Ids}
  ELSE IF op \in IdOrLinkOps THEN {Arg(NoQuery, i, l, << >>) : i \in Ids, l \in Links}
  ELSE {Arg(NoQuery, Undefined, Undefined, s) : s \in IdArrays}

\* as validateAndSanitizeQuery, measuring the query before it is trimmed
validateUntrimmed(query) ==
  IF Length(query) = 0
  THEN ValidationError("Query parameter is required and must be a string")
  ELSE IF Length(query) > MaxQueryLength
  THEN ValidationError("Query parameter too long (max 100 characters)")
  ELSE NoError

\* validateAndSanitizeQuery: the error it throws, NoError when it returns
validateAndSanitizeQuery(query) ==
  IF Length(query) = 0
  THEN ValidationError("Query parameter is required and must be a string")
  ELSE IF Length(trim(query)) = 0
  THEN ValidationError("Query parameter cannot be empty")
  ELSE IF Length(trim(query)) > MaxQueryLength
  THEN ValidationError("Query parameter too long (max 100 characters)")
  ELSE NoError

\* the parameter check each catalog operation makes before its try block
validate(op, arg) ==
  IF op \in SearchOps THEN validateAndSanitizeQuery(arg.query)
  ELSE IF op \in IdOps
  THEN IF Falsy(arg.id) THEN ValidationError("ID is required") ELSE NoError
  ELSE IF op \in IdOrLinkOps
  THEN IF Falsy(arg.id) /\ Falsy(arg.link)
       THEN ValidationError("Either ID or link is required") ELSE NoError
  ELSE IF Len(arg.ids) = 0
       THEN ValidationError("Song IDs array is required and cannot be empty")
       ELSE NoError

(***************************************************************************)
(* The network: how one fetch() settles.                                   *)
(***************************************************************************)
Statuses == {200, 400, 404, 499, 500}

Bodies == {"", "<html>", "{\"success\":true}", "{\"success\":false}"}

Resolutions ==
  {[type |-> "response", status |-> s, body |-> b] : s \in Statuses, b \in Bodies}
  \cup {[type |-> "failure", status |-> 0, body |-> ""],
        [type |-> "abort", status |-> 0, body |-> ""]}

\* Response.ok
ok(status) == status >= 200 /\ status <= 299

NoValue == [parsed |-> FALSE, success |-> FALSE]

\* JSON.parse: the parsed value, NoValue when it throws
JSONparse(text) ==
  IF text = "{\"success\":true}" THEN [parsed |-> TRUE, success |-> TRUE]
  ELSE IF text = "{\"success\":false}" THEN [parsed |-> TRUE, success |-> FALSE]
  ELSE NoValue

\* the try block of one attempt: what it throws, NoError when it returns
attemptError(r) ==
  IF r.type = "abort" THEN AbortError
  ELSE IF r.type = "failure" THEN TypeError
  ELSE IF ~ok(r.status) THEN ApiResponseError("HTTP status: Request failed", r.status)
  ELSE IF r.body = "" THEN ApiResponseError("Empty response body", r.status)
  ELSE IF ~JSONparse(r.body).parsed THEN ApiResponseError("Invalid JSON response", r.status)
  ELSE NoError

\* as isClientError, with the lower end of the 4xx range left out
isClientErrorAbove400(error) ==
  \/ error.kind = "ValidationError"
  \/ /\ error.kind = "ApiResponseError"
     /\ error.statusCode > 400
     /\ error.statusCode < 500

\* "Don't retry on validation errors or client errors (4xx)"
isClientError(error) ==
  \/ error.kind = "ValidationError"
  \/ /\ error.kind = "ApiResponseError"
     /\ error.statusCode >= 400
     /\ error.statusCode < 500

\* as isAbortError, for a client that lets timeouts take the retry path
isAbortErrorRetried(error) == FALSE

\* "Don't retry on AbortError (timeout)"
isAbortError(error) == error.kind = "AbortError"

RECURSIVE pow(_, _)
\* Math.pow on naturals
pow(b, e) == IF e = 0 THEN 1 ELSE b * pow(b, e - 1)

\* as backoffDelay, growing linearly
backoffLinear(cfg, attempt) == cfg.retryDelay * (attempt + 1)

\* the exponential backoff taken after the failed attempt number `attempt`
backoffDelay(cfg, attempt) == cfg.retryDelay * pow(2, attempt)

\* the loop's test for another attempt
attemptsRemain(cfg, attempt) == attempt < cfg.maxRetries

\* the catch block every catalog operation puts around makeRequest
wrapError(op, error) == SaavnApiError(op)

(***************************************************************************)
(* One asynchronous call of a catalog operation.                           *)
(***************************************************************************)
Pending == [settled |-> "pending", value |-> NoValue, error |-> NoError]

Fulfilled(v) == [settled |-> "fulfilled", value |-> v, error |-> NoError]

Rejected(e) == [settled |-> "rejected", value |-> NoValue, error |-> e]

IdleCall ==
  [pc |-> "idle", op |-> "search", arg |-> NoArg, attempt |-> 0, fetches |-> 0,
   lastError |-> NoError, wake |-> 0, delays |-> << >>, passedAt |-> 0,
   thrown |-> NoError, outcome |-> Pending]

\* the clock never runs backwards and the program starts long after the epoch
Tick ==
  /\ \/ now < MaxTime
     \/ \E c \in Calls : call[c].pc \in {"rateLimit", "backoff"} /\ call[c].wake > now
  /\ now' = now + 1
  /\ UNCHANGED <<config, lastRequestTime, call, requests, upstream, state, uiVars>>

\* a catalog operation is called: parameter check, then makeRequest up to its
\* first suspension (the rate-limit sleep, or the first fetch)
Invoke(c, op, arg) ==
  /\ call[c].pc \in {"idle", "done"}
  /\ now <= MaxTime
  /\ <<op, arg>> \in requests[c]
  /\ LET invalid == validate(op, arg)
         timeSinceLastRequest == now - lastRequestTime
         started == [IdleCall EXCEPT !.op = op, !.arg = arg]
     IN IF invalid # NoError
        THEN /\ call' = [call EXCEPT ![c] =
                   [started EXCEPT !.pc = "done", !.outcome = Rejected(invalid)]]
             /\ UNCHANGED lastRequestTime
        ELSE IF timeSinceLastRequest < config.rateLimitDelay
        THEN /\ call' = [call EXCEPT ![c] =
                   [started EXCEPT !.pc = "rateLimit",
                      !.wake = now + (config.rateLimitDelay - timeSinceLastRequest)]]
             /\ UNCHANGED lastRequestTime
        ELSE /\ lastRequestTime' = now
             /\ call' = [call EXCEPT ![c] =
                   [started EXCEPT !.pc = "fetching", !.passedAt = now, !.fetches = 1]]
  /\ UNCHANGED <<config, now, requests, upstream, state, uiVars>>

\* as enforceRateLimit, with the time stamp after the sleep forgotten
enforceRateLimitNoStamp(c) ==
  /\ call[c].pc = "rateLimit"
  /\ now >= call[c].wake
  /\ call' = [call EXCEPT ![c] =
        [@ EXCEPT !.pc = "fetching", !.passedAt = now, !.fetches = 1]]
  /\ UNCHANGED <<config, now, lastRequestTime, requests, upstream, state, uiVars>>

\* the rate-limit sleep ends: stamp the time and issue the first fetch
enforceRateLimit(c) ==
  /\ call[c].pc = "rateLimit"
  /\ now >= call[c].wake
  /\ lastRequestTime' = now
  /\ call' = [call EXCEPT ![c] =
        [@ EXCEPT !.pc = "fetching", !.passedAt = now, !.fetches = 1]]
  /\ UNCHANGED <<config, now, requests, upstream, state, uiVars>>

\* a failure leaves makeRequest: the catalog operation's catch block wraps it
throwFrom(cl, error) ==
  [cl EXCEPT !.pc = "done", !.thrown = error,
             !.outcome = Rejected(wrapError(cl.op, error))]

\* as exhausted, with the throw after the loop forgotten: makeRequest returns
\* undefined
exhaustedSilently(cl) ==
  [cl EXCEPT !.pc = "done", !.attempt = @ + 1, !.outcome = Fulfilled(NoValue)]

\* the loop ran out of attempts: the throw after it
exhausted(cl) ==
  throwFrom([cl EXCEPT !.attempt = @ + 1], NetworkError("Failed to complete request"))

\* the call after the fetch of attempt `attempt` settled with r
afterAttempt(cl, r) ==
  LET error == attemptError(r) IN
  IF error = NoError
  THEN [cl EXCEPT !.pc = "done", !.outcome = Fulfilled(JSONparse(r.body))]
  ELSE IF isClientError(error)
  THEN throwFrom([cl EXCEPT !.lastError = error], error)
  ELSE IF isAbortError(error)
  THEN throwFrom([cl EXCEPT !.lastError = error], NetworkError("Request timeout"))
  ELSE IF attemptsRemain(config, cl.attempt)
  THEN [cl EXCEPT !.pc = "backoff", !.lastError = error,
                  !.wake = now + backoffDelay(config, cl.attempt),
                  !.delays = Append(@, backoffDelay(config, cl.attempt))]
  ELSE exhausted([cl EXCEPT !.lastError = error])

\* the fetch of the current attempt settles
Respond(c, r) ==
  /\ call[c].pc = "fetching"
  /\ r \in upstream
  /\ call' = [call EXCEPT ![c] = afterAttempt(call[c], r)]
  /\ UNCHANGED <<config, now, lastRequestTime, requests, upstream, state, uiVars>>

\* the backoff sleep ends: next iteration of the loop
Retry(c) ==
  /\ call[c].pc = "backoff"
  /\ now >= call[c].wake
  /\ call' = [call EXCEPT ![c] =
        [@ EXCEPT !.pc = "fetching", !.attempt = @ + 1, !.fetches = @ + 1]]
  /\ UNCHANGED <<config, now, lastRequestTime, requests, upstream, state, uiVars>>

Configs ==
  [maxRetries : 0..MaxRetries, retryDelay : 1..MaxRetryDelay,
   rateLimitDelay : 1..MaxRateLimitDelay]

AllRequests == UNION {{<<op, arg>> : arg \in Args(op)} : op \in Ops}

(***************************************************************************)
(* The music player reducer (MusicPlayerContext).  A song is [id, ref]:    *)
(* its catalog identifier and the identity of the object that holds it.    *)
(* Array positions are counted from 0, as in the source.                   *)
(***************************************************************************)
Song(id, ref) == [id |-> id, ref |-> ref]

null == Song("", 0)

A == Song("a", 1)

\* the track "a" again, fetched a second time
A2 == Song("a", 2)

B == Song("b", 1)

C == Song("c", 1)

\* an optional payload field: << >> when it is omitted
None == << >>

Some(x) == <<x>>

\* the currentIndex left by arithmetic on an undefined index
NotANumber == -9

initialState ==
  [currentSong |-> null, playlist |-> << >>, currentIndex |-> -1,
   isPlaying |-> FALSE, queue |-> << >>, history |-> << >>,
   repeat |-> "none", shuffle |-> FALSE]

\* as at, counting positions from 1
atOneBased(array, i) == IF i \in 1..Len(array) THEN array[i] ELSE null

\* array[i] || null
at(array, i) == IF i \in 0..(Len(array) - 1) THEN array[i + 1] ELSE null

\* Array.prototype.includes
includes(array, x) == \E k \in 1..Len(array) : array[k] = x

\* array.slice(-n)
sliceLast(array, n) ==
  IF Len(array) <= n THEN array ELSE SubSeq(array, Len(array) - n + 1, Len(array))

\* array.slice(1)
sliceFrom1(array) == IF Len(array) = 0 THEN << >> ELSE Tail(array)

\* array.slice(0, -1)
sliceButLast(array) == IF Len(array) = 0 THEN << >> ELSE SubSeq(array, 1, Len(array) - 1)

\* as findIndexById, never finding the song
findIndexNowhere(array, id) == -1

\* array.findIndex(song => song.id === id)
findIndexById(array, id) ==
  IF \E k \in 1..Len(array) : array[k].id = id
  THEN (CHOOSE k \in 1..Len(array) :
          /\ array[k].id = id
          /\ \A j \in 1..(k - 1) : array[j].id # id) - 1
  ELSE -1

\* as removeAt, counting positions from 1
removeAtOneBased(array, i) ==
  IF i \in 1..Len(array)
  THEN SubSeq(array, 1, i - 1) \o SubSeq(array, i + 1, Len(array))
  ELSE array

\* array.filter((_, index) => index !== i)
removeAt(array, i) ==
  IF i \in 0..(Len(array) - 1)
  THEN SubSeq(array, 1, i) \o SubSeq(array, i + 2, Len(array))
  ELSE array

HistoryKeep == 49

\* as pushHistory, keeping one entry more of the old history
pushHistoryKeepOneMore(history, song) == Append(sliceLast(history, HistoryKeep + 1), song)

\* [...history.slice(-49), song]
pushHistory(history, song) == Append(sliceLast(history, HistoryKeep), song)

\* number + k, NaN when the number is undefined
plus(i, k) == IF i = NotANumber THEN NotANumber ELSE i + k

SET_CURRENT_SONG(st, payload) ==
  LET newHistory ==
        IF st.currentSong # null /\ ~includes(st.history, st.currentSong)
        THEN pushHistory(st.history, st.currentSong)
        ELSE st.history
  IN {[st EXCEPT !.currentSong = payload.song,
                 !.playlist = IF payload.playlist # None THEN payload.playlist[1] ELSE @,
                 !.currentIndex = IF payload.index # None THEN payload.index[1] ELSE @,
                 !.history = newHistory]}

\* as SET_PLAYLIST, with the position kept when none is given
setPlaylistKeepsIndex(st, payload) ==
  LET index == IF payload.currentIndex # None THEN payload.currentIndex[1]
               ELSE st.currentIndex
  IN {[st EXCEPT !.playlist = payload.playlist,
                 !.currentIndex = index,
                 !.currentSong = at(payload.playlist, index)]}

SET_PLAYLIST(st, payload) ==
  LET index == IF payload.currentIndex # None THEN payload.currentIndex[1] ELSE 0
  IN {[st EXCEPT !.playlist = payload.playlist,
                 !.currentIndex = index,
                 !.currentSong = at(payload.playlist, index)]}

\* as availableIndices, with the current position left in
allIndices(st) == 0..(Len(st.playlist) - 1)

\* the playlist positions Math.random may pick: every one but the current
availableIndices(st) == {i \in 0..(Len(st.playlist) - 1) : i # st.currentIndex}

\* the index NEXT_SONG moves to with shuffle on: availableIndices[undefined] is
\* undefined when there is no other position
shuffleChoices(st) ==
  IF availableIndices(st) = {} THEN {NotANumber} ELSE availableIndices(st)

\* as advanceTo, with the push onto history forgotten
advanceNoHistory(st, nextIndex) ==
  [st EXCEPT !.currentIndex = nextIndex,
             !.currentSong = at(st.playlist, nextIndex)]

\* the last part of NEXT_SONG: move to nextIndex
advanceTo(st, nextIndex) ==
  [st EXCEPT !.currentIndex = nextIndex,
             !.currentSong = at(st.playlist, nextIndex),
             !.history = IF st.currentSong # null
                         THEN pushHistory(st.history, st.currentSong) ELSE @]

\* as playFromQueue, taking the track queued last
playNewestFromQueue(st) ==
  [st EXCEPT !.currentSong = st.queue[Len(st.queue)],
             !.queue = sliceButLast(st.queue),
             !.history = IF st.currentSong # null
                         THEN pushHistory(st.history, st.currentSong) ELSE @]

\* "Play from queue first"
playFromQueue(st) ==
  [st EXCEPT !.currentSong = st.queue[1],
             !.queue = sliceFrom1(st.queue),
             !.history = IF st.currentSong # null
                         THEN pushHistory(st.history, st.currentSong) ELSE @]

\* as nextInPlaylist, with the end of the playlist found one position late
nextPastEnd(st) ==
  IF st.shuffle THEN {advanceTo(st, i) : i \in shuffleChoices(st)}
  ELSE IF st.currentIndex # NotANumber /\ st.currentIndex + 1 > Len(st.playlist)
  THEN IF st.repeat = "all"
       THEN {advanceTo(st, 0)}
       ELSE {[st EXCEPT !.isPlaying = FALSE]}
  ELSE {advanceTo(st, plus(st.currentIndex, 1))}

\* the rest of NEXT_SONG, once the queue is found empty and repeat is not "one"
nextInPlaylist(st) ==
  IF st.shuffle THEN {advanceTo(st, i) : i \in shuffleChoices(st)}
  ELSE IF st.currentIndex # NotANumber /\ st.currentIndex + 1 >= Len(st.playlist)
  THEN IF st.repeat = "all"
       THEN {advanceTo(st, 0)}
       ELSE {[st EXCEPT !.isPlaying = FALSE]}
  ELSE {advanceTo(st, plus(st.currentIndex, 1))}

\* as NEXT_SONG, with repeat-one checked before the queue
nextRepeatBeforeQueue(st) ==
  IF st.repeat = "one" THEN {st}
  ELSE IF Len(st.queue) > 0 THEN {playFromQueue(st)}
  ELSE nextInPlaylist(st)

\* as NEXT_SONG, with shuffle checked before repeat-one
nextShuffleBeforeRepeat(st) ==
  IF Len(st.queue) > 0 THEN {playFromQueue(st)}
  ELSE IF st.shuffle THEN nextInPlaylist(st)
  ELSE IF st.repeat = "one" THEN {st}
  ELSE nextInPlaylist(st)

NEXT_SONG(st) ==
  IF Len(st.queue) > 0 THEN {playFromQueue(st)}
  ELSE IF st.repeat = "one" THEN {st}
  ELSE nextInPlaylist(st)

\* as PREVIOUS_SONG, wrapping at the first position whatever repeat is
previousWrapsAlways(st) ==
  IF Len(st.history) > 0
  THEN LET previousSong == st.history[Len(st.history)]
           previousIndex == findIndexById(st.playlist, previousSong.id)
       IN {[st EXCEPT !.currentSong = previousSong,
                      !.currentIndex = IF previousIndex # -1 THEN previousIndex ELSE @,
                      !.history = sliceButLast(st.history)]}
  ELSE IF st.currentIndex # NotANumber /\ st.currentIndex - 1 < 0
  THEN {[st EXCEPT !.currentIndex = Len(st.playlist) - 1,
                   !.currentSong = at(st.playlist, Len(st.playlist) - 1)]}
  ELSE {[st EXCEPT !.currentIndex = plus(st.currentIndex, -1),
                   !.currentSong = at(st.playlist, plus(st.currentIndex, -1))]}

PREVIOUS_SONG(st) ==
  IF Len(st.history) > 0
  THEN LET previousSong == st.history[Len(st.history)]
           previousIndex == findIndexById(st.playlist, previousSong.id)
       IN {[st EXCEPT !.currentSong = previousSong,
                      !.currentIndex = IF previousIndex # -1 THEN previousIndex ELSE @,
                      !.history = sliceButLast(st.history)]}
  ELSE IF st.currentIndex # NotANumber /\ st.currentIndex - 1 < 0
  THEN IF st.repeat = "all"
       THEN {[st EXCEPT !.currentIndex = Len(st.playlist) - 1,
                        !.currentSong = at(st.playlist, Len(st.playlist) - 1)]}
       ELSE {st}
  ELSE {[st EXCEPT !.currentIndex = plus(st.currentIndex, -1),
                   !.currentSong = at(st.playlist, plus(st.currentIndex, -1))]}

\* the states the reducer may return (more than one only where it calls
\* Math.random)
musicPlayerReducer(st, action) ==
  CASE action.type = "SET_CURRENT_SONG" -> SET_CURRENT_SONG(st, action.payload)
    [] action.type = "SET_PLAYLIST" -> SET_PLAYLIST(st, action.payload)
    [] action.type = "NEXT_SONG" -> NEXT_SONG(st)
    [] action.type = "PREVIOUS_SONG" -> PREVIOUS_SONG(st)
    [] action.type = "SET_PLAYING" -> {[st EXCEPT !.isPlaying = action.payload]}
    [] action.type = "ADD_TO_QUEUE" -> {[st EXCEPT !.queue = Append(@, action.payload)]}
    [] action.type = "REMOVE_FROM_QUEUE" -> {[st EXCEPT !.queue = removeAt(@, action.payload)]}
    [] action.type = "CLEAR_QUEUE" -> {[st EXCEPT !.queue = << >>]}
    [] action.type = "SET_REPEAT" -> {[st EXCEPT !.repeat = action.payload]}
    [] action.type = "TOGGLE_SHUFFLE" -> {[st EXCEPT !.shuffle = ~@]}
    [] action.type = "CLEAR_PLAYER" -> {initialState}
    [] OTHER -> {st}

(***************************************************************************)
(* The proxy function (api/proxy.js): one invocation per request, each     *)
(* with its own req and res.                                               *)
(***************************************************************************)
Methods == {"GET", "POST", "OPTIONS"}

\* the part of the request path after the /api prefix
Paths == {"/search", "/songs", "/albums", "/modules"}

QueryStrings == {"", "?query=a"}

\* as CorsHeaders, with the allowed origin left out
CorsHeadersWithoutOrigin ==
  {"Access-Control-Allow-Credentials", "Access-Control-Allow-Methods",
   "Access-Control-Allow-Headers"}

CorsHeaders ==
  {"Access-Control-Allow-Credentials", "Access-Control-Allow-Origin",
   "Access-Control-Allow-Methods", "Access-Control-Allow-Headers"}

NoBody == [kind |-> "none", data |-> NoValue, message |-> ""]

\* res.end() with nothing written
EmptyBody == [kind |-> "empty", data |-> NoValue, message |-> ""]

\* res.json(data)
JsonBody(data) == [kind |-> "json", data |-> data, message |-> ""]

\* res.json({ error: 'Proxy error', message: error.message })
ErrorBody(message) == [kind |-> "error", data |-> NoValue, message |-> message]

NoUrl == [path |-> "", query |-> ""]

IdleProxy ==
  [pc |-> "idle", method |-> "GET", headers |-> {}, status |-> 0, body |-> NoBody,
   responses |-> 0, fetches |-> 0, apiUrl |-> NoUrl]

\* the handler up to its first suspension: the CORS headers, the OPTIONS
\* short cut, otherwise the upstream URL and the fetch
handler(method, path, query) ==
  /\ proxy.pc \in {"idle", "done"}
  /\ LET res == [IdleProxy EXCEPT !.method = method, !.headers = CorsHeaders]
     IN proxy' =
          IF method = "OPTIONS"
          THEN [res EXCEPT !.pc = "done", !.status = 200, !.body = EmptyBody,
                           !.responses = 1]
          ELSE [res EXCEPT !.pc = "fetching", !.fetches = 1,
                           !.apiUrl = [path |-> path, query |-> query]]
  /\ UNCHANGED <<apiVars, state, hook, loader, audio>>

\* as relay, answering 200 whatever the upstream's status is
relayAlwaysOk(res, r) ==
  IF r.type # "response" THEN [res EXCEPT !.pc = "done", !.status = 500,
                                  !.body = ErrorBody("fetch failed"),
                                  !.responses = @ + 1]
  ELSE IF ~JSONparse(r.body).parsed
  THEN [res EXCEPT !.pc = "done", !.status = 500,
                   !.body = ErrorBody("Unexpected token"), !.responses = @ + 1]
  ELSE [res EXCEPT !.pc = "done", !.status = 200,
                   !.body = JsonBody(JSONparse(r.body)), !.responses = @ + 1]

\* the rest of the try block and the catch block, once the fetch has settled
\* with r
relay(res, r) ==
  IF r.type # "response" THEN [res EXCEPT !.pc = "done", !.status = 500,
                                  !.body = ErrorBody("fetch failed"),
                                  !.responses = @ + 1]
  ELSE IF ~JSONparse(r.body).parsed
  THEN [res EXCEPT !.pc = "done", !.status = 500,
                   !.body = ErrorBody("Unexpected token"), !.responses = @ + 1]
  ELSE [res EXCEPT !.pc = "done", !.status = r.status,
                   !.body = JsonBody(JSONparse(r.body)), !.responses = @ + 1]

\* the upstream fetch of the proxy settles
proxyFetchSettles(r) ==
  /\ proxy.pc = "fetching"
  /\ r \in upstream
  /\ proxy' = relay(proxy, r)
  /\ UNCHANGED <<apiVars, state, hook, loader, audio>>

\* the upstream answers or cannot be reached; the proxy sets no timeout
ProxyUpstream == {r \in Resolutions : r.type # "abort"}

(***************************************************************************)
(* One useApiCall hook (useSearch, useSong, ...).  The value an execution  *)
(* delivers, and the message of the error it ends with, are kept as the    *)
(* number of the execution, counted in the order of the calls of execute;  *)
(* 0 is null.                                                              *)
(***************************************************************************)
\* the executions of one hook that may be in flight together
Executions == {"e1", "e2"}

IdleExecution == [pc |-> "idle", seq |-> 0]

initialHook ==
  [data |-> 0, loading |-> FALSE, error |-> 0, started |-> 0,
   execution |-> [e \in Executions |-> IdleExecution]]

\* execute(apiCall) up to its await
execute(e) ==
  /\ hook.execution[e].pc # "pending"
  /\ hook.started < MaxExecutes
  /\ hook' = [hook EXCEPT !.loading = TRUE, !.error = 0,
                          !.started = @ + 1,
                          !.execution[e] = [pc |-> "pending", seq |-> hook.started + 1]]
  /\ UNCHANGED <<apiVars, state, proxy, loader, audio>>

\* apiCall() fulfils: setState({ data, loading: false, error: null })
executeFulfilled(e) ==
  /\ hook.execution[e].pc = "pending"
  /\ hook' = [hook EXCEPT !.data = hook.execution[e].seq, !.loading = FALSE,
                          !.error = 0, !.execution[e].pc = "fulfilled"]
  /\ UNCHANGED <<apiVars, state, proxy, loader, audio>>

\* apiCall() rejects: setState(prev => ({ ...prev, loading: false, error }))
executeRejected(e) ==
  /\ hook.execution[e].pc = "pending"
  /\ hook' = [hook EXCEPT !.loading = FALSE, !.error = hook.execution[e].seq,
                          !.execution[e].pc = "rejected"]
  /\ UNCHANGED <<apiVars, state, proxy, loader, audio>>

(***************************************************************************)
(* playTrack (MusicPlayerContext): load a track by its identifier on a     *)
(* client of its own and play it.                                          *)
(***************************************************************************)
\* apiService.getSongs([trackId]) rejects
GetSongsRejected ==
  [settled |-> "rejected", success |-> FALSE, data |-> None]

\* apiService.getSongs([trackId]) fulfils with { success, data }; data is
\* None when the response carries none
GetSongsResponse(success, data) ==
  [settled |-> "fulfilled", success |-> success, data |-> data]

GetSongsOutcomes ==
  {GetSongsRejected}
  \cup {GetSongsResponse(success, data) :
          success \in BOOLEAN,
          data \in {None, Some(<< >>), Some(<<A2>>), Some(<<B, C>>)}}

NoOutcome == [settled |-> "pending", success |-> FALSE, data |-> None]

IdleLoader == [pc |-> "idle", outcome |-> NoOutcome, before |-> initialState,
               thrown |-> FALSE]

(***************************************************************************)
(* The audio element of NowPlaying and the component state around it.      *)
(***************************************************************************)
\* no source loaded, nothing playing; loadedSongIdRef is null ("")
initialAudio == [pc |-> "idle", loadedSongId |-> "", isPlaying |-> FALSE]

(***************************************************************************)
(* The systems that are checked.                                           *)
(***************************************************************************)
ApiInit(cfgs, reqs, net) ==
  /\ config \in cfgs
  /\ upstream = net
  /\ now = StartTime
  /\ lastRequestTime = 0
  /\ call = [c \in Calls |-> IdleCall]
  /\ requests = reqs
  /\ state = initialState
  /\ proxy = IdleProxy
  /\ hook = initialHook
  /\ loader = IdleLoader
  /\ audio = initialAudio

\* one call site, called again and again: every operation with every argument
Init ==
  \E rq \in AllRequests : ApiInit(Configs, [c \in Calls |-> IF c = "c1" THEN {rq} ELSE {}], Resolutions)

Next ==
  \/ Tick
  \/ \E c \in Calls : \E rq \in requests[c] : Invoke(c, rq[1], rq[2])
  \/ \E c \in Calls : enforceRateLimit(c)
  \/ \E c \in Calls : \E r \in upstream : Respond(c, r)
  \/ \E c \in Calls : Retry(c)

Spec == Init /\ [][Next]_vars

\* ArtistProfile: getArtistSongs and getArtistAlbums issued together on saavnApi
ConcurrentRequests ==
  [c \in Calls |->
     IF c = "c1" THEN {<<"getArtistSongs", Arg(NoQuery, "id", Undefined, << >>)>>}
     ELSE {<<"getArtistAlbums", Arg(NoQuery, "id", Undefined, << >>)>>,
           <<"getArtistAlbums", Arg(NoQuery, "", Undefined, << >>)>>}]

\* an upstream that answers, refuses (404), breaks (500) or hangs
ConcurrentUpstream ==
  {r \in Resolutions :
     \/ r.type = "abort"
     \/ r.type = "response" /\ r.status \in {200, 404, 500} /\ r.body = "{\"success\":true}"}

ConcInit ==
  ApiInit({cfg \in Configs : cfg.maxRetries <= MaxConcurrentRetries},
          ConcurrentRequests, ConcurrentUpstream)

ConcSpec == ConcInit /\ [][Next]_vars

\* timers fire and every fetch settles (with a response, a failure, or the abort
\* of its timeout)
Fairness ==
  /\ WF_vars(Tick)
  /\ \A c \in Calls : WF_vars(enforceRateLimit(c))
  /\ \A c \in Calls : WF_vars(\E r \in upstream : Respond(c, r))
  /\ \A c \in Calls : WF_vars(Retry(c))

\* one operation of each family, with an argument it accepts and one it rejects
FamilyRequests ==
  {<<"search", Arg(Str(1, MaxQueryLength, 1), Undefined, Undefined, << >>)>>,
   <<"search", Arg(Str(2, 0, 0), Undefined, Undefined, << >>)>>,
   <<"getSong", Arg(NoQuery, "id", Undefined, << >>)>>,
   <<"getSong", Arg(NoQuery, "", Undefined, << >>)>>,
   <<"getAlbum", Arg(NoQuery, Undefined, "link", << >>)>>,
   <<"getAlbum", Arg(NoQuery, Undefined, Undefined, << >>)>>,
   <<"getSongs", Arg(NoQuery, Undefined, Undefined, <<"id">>)>>,
   <<"getSongs", Arg(NoQuery, Undefined, Undefined, << >>)>>}

FairInit ==
  \E rq \in FamilyRequests :
    ApiInit(Configs, [c \in Calls |-> IF c = "c1" THEN {rq} ELSE {}], Resolutions)

FairSpec == FairInit /\ [][Next]_vars /\ Fairness

\* the proxy alone, answering one request after the other
ProxyInit ==
  ApiInit({cfg \in Configs : cfg.maxRetries = 0 /\ cfg.retryDelay = 1
                               /\ cfg.rateLimitDelay = 1},
          [c \in Calls |-> {}], ProxyUpstream)

ProxyNext ==
  \/ \E method \in Methods : \E path \in Paths : \E query \in QueryStrings :
       handler(method, path, query)
  \/ \E r \in upstream : proxyFetchSettles(r)

ProxySpec == ProxyInit /\ [][ProxyNext]_vars

\* one hook alone, executed again and again
HookInit ==
  ApiInit({cfg \in Configs : cfg.maxRetries = 0 /\ cfg.retryDelay = 1
                               /\ cfg.rateLimitDelay = 1},
          [c \in Calls |-> {}], {})

HookNext ==
  \/ \E e \in Executions : execute(e)
  \/ \E e \in Executions : executeFulfilled(e)
  \/ \E e \in Executions : executeRejected(e)

HookSpec == HookInit /\ [][HookNext]_vars

(***************************************************************************)
(* Claims about the request mechanism.                                     *)
(***************************************************************************)
Is4xx(error) ==
  /\ error.kind = "ApiResponseError"
  /\ error.statusCode \in 400..499

\* C1: a response with status 400-499 ends the call at once: the attempt that
\* received it is the last one, no backoff delay follows it, and the 4xx error
\* is what makeRequest throws; a call whose first response is 4xx has made
\* exactly one fetch, whatever maxRetries is.
C1_ClientErrorOneAttempt ==
  \A c \in Calls :
    Is4xx(call[c].lastError) =>
      /\ call[c].pc = "done"
      /\ call[c].thrown = call[c].lastError
      /\ call[c].fetches = call[c].attempt + 1
      /\ Len(call[c].delays) = call[c].attempt
      /\ (call[c].attempt = 0 => call[c].fetches = 1 /\ call[c].delays = << >>)

C1_Witness ==
  \E c \in Calls :
    /\ Is4xx(call[c].lastError)
    /\ call[c].pc = "done"
    /\ call[c].fetches = 1
    /\ config.maxRetries >= 1

Retryable(error) ==
  \/ error.kind = "ApiResponseError" /\ error.statusCode >= 500
  \/ error.kind = "TypeError"
  \/ error.kind = "ApiResponseError" /\ error.message = "Empty response body"
  \/ error.kind = "ApiResponseError" /\ error.message = "Invalid JSON response"

\* the delays D, 2D, 4D, ... before attempts 2 .. n+1
Schedule(D, n) == [k \in 1..n |-> D * 2^(k - 1)]

\* C2: a call that failed on a retryable failure (status >= 500, connection
\* failure, empty body, body that is not JSON) has made exactly maxRetries + 1
\* fetches, the delay before attempt k+1 was retryDelay * 2^(k-1), and no delay
\* followed the last attempt; a call that is backing off has taken the first
\* delays of that schedule.
C2_RetrySchedule ==
  \A c \in Calls :
    /\ (call[c].pc = "done" /\ call[c].outcome.settled = "rejected"
          /\ Retryable(call[c].lastError)) =>
         /\ call[c].fetches = config.maxRetries + 1
         /\ call[c].delays = Schedule(config.retryDelay, config.maxRetries)
         /\ call[c].thrown.kind = "NetworkError"
    /\ call[c].pc = "backoff" =>
         /\ Retryable(call[c].lastError)
         /\ call[c].fetches <= config.maxRetries
         /\ call[c].delays = Schedule(config.retryDelay, call[c].fetches)

C2_Witness ==
  \E c \in Calls :
    /\ call[c].pc = "done"
    /\ call[c].outcome.settled = "rejected"
    /\ Retryable(call[c].lastError)
    /\ config.maxRetries = 3
    /\ call[c].fetches = 4
    /\ call[c].delays = <<config.retryDelay, 2 * config.retryDelay, 4 * config.retryDelay>>

\* C3 as claimed: a timed-out attempt is retried, so a call that ended on a
\* timeout has made maxRetries + 1 attempts.
C3_TimeoutRetried ==
  \A c \in Calls :
    (call[c].pc = "done" /\ call[c].lastError.kind = "AbortError") =>
      call[c].fetches = config.maxRetries + 1

\* C3 amended: a timed-out (aborted) attempt is never retried: the call ends at
\* once with NetworkError "Request timeout", no backoff follows the attempt and
\* no further attempt is made, even when attempts remain.
C3_TimeoutNotRetried ==
  \A c \in Calls :
    call[c].lastError.kind = "AbortError" =>
      /\ call[c].pc = "done"
      /\ call[c].thrown = NetworkError("Request timeout")
      /\ call[c].fetches = call[c].attempt + 1
      /\ Len(call[c].delays) = call[c].attempt

C3_Witness ==
  \E c \in Calls :
    /\ call[c].lastError.kind = "AbortError"
    /\ call[c].pc = "done"
    /\ call[c].fetches = 1
    /\ config.maxRetries >= 1

\* the required identifying parameter of a catalog operation is invalid
ParamInvalid(op, arg) ==
  \/ op \in SearchOps /\ (arg.query.core = 0 \/ arg.query.core > 100)
  \/ op \in IdOps /\ arg.id \in {Undefined, ""}
  \/ op \in IdOrLinkOps /\ arg.id \in {Undefined, ""} /\ arg.link \in {Undefined, ""}
  \/ op \in IdsOps /\ arg.ids = << >>

\* C4: a catalog operation called with an invalid identifying parameter (query
\* empty or longer than 100 characters after trimming, id and link absent, ids
\* empty) is rejected with a ValidationError delivered as such, has made no
\* fetch, has taken no delay and has not passed the rate-limit check.
C4_ValidationBeforeNetwork ==
  \A c \in Calls :
    (call[c].pc # "idle" /\ ParamInvalid(call[c].op, call[c].arg)) =>
      /\ call[c].pc = "done"
      /\ call[c].outcome.settled = "rejected"
      /\ call[c].outcome.error.kind = "ValidationError"
      /\ call[c].fetches = 0
      /\ call[c].delays = << >>
      /\ call[c].passedAt = 0

C4_Witness ==
  \E c \in Calls :
    /\ call[c].pc = "done"
    /\ call[c].op \in SearchOps
    /\ call[c].arg.query.core > 100
    /\ call[c].outcome.error.kind = "ValidationError"
    /\ call[c].fetches = 0

\* C5 as claimed: a catalog operation that fails because the upstream answered
\* with a non-2xx status delivers an ApiResponseError carrying that status; one
\* that fails on a timeout or a connection failure delivers a NetworkError.
C5_ClassifiedErrorDelivered ==
  \A c \in Calls :
    (call[c].pc = "done" /\ call[c].outcome.settled = "rejected") =>
      /\ (/\ call[c].lastError.kind = "ApiResponseError"
          /\ call[c].lastError.statusCode \notin 200..299) =>
           /\ call[c].outcome.error.kind = "ApiResponseError"
           /\ call[c].outcome.error.statusCode = call[c].lastError.statusCode
      /\ call[c].lastError.kind \in {"AbortError", "TypeError"} =>
           call[c].outcome.error.kind = "NetworkError"

Classified == {"ValidationError", "ApiResponseError", "NetworkError", "SaavnApiError"}

\* the outcome is decided exactly when the call is done; a decided outcome is
\* a parsed value or a classified error; a failure of makeRequest is delivered
C6_Outcome ==
  \A c \in Calls :
    /\ call[c].pc = "done" <=> call[c].outcome.settled # "pending"
    /\ call[c].pc = "done" =>
         \/ /\ call[c].outcome.settled = "fulfilled"
            /\ call[c].outcome.value.parsed
            /\ call[c].thrown = NoError
         \/ /\ call[c].outcome.settled = "rejected"
            /\ call[c].outcome.error.kind \in Classified
    /\ call[c].thrown # NoError => call[c].outcome.settled = "rejected"

\* a step of a decided call is a fresh invocation of the operation; the step
\* that decides a call issues no fetch
C6_Step ==
  \A c \in Calls :
    /\ (call[c].pc = "done" /\ call'[c] # call[c]) =>
         /\ call'[c].attempt = 0
         /\ call'[c].fetches <= 1
         /\ call'[c].lastError = NoError
         /\ call'[c].thrown = NoError
    /\ (call[c].pc # "done" /\ call'[c].pc = "done") =>
         call'[c].fetches = call[c].fetches

Abs(x) == IF x < 0 THEN -x ELSE x

\* C7 as claimed: any two calls on one client instance pass the rate-limit check
\* at times at least rateLimitDelay apart.
C7_MinimumSpacing ==
  \A c, d \in Calls :
    (c # d /\ call[c].passedAt # 0 /\ call[d].passedAt # 0) =>
      Abs(call[c].passedAt - call[d].passedAt) >= config.rateLimitDelay

IsValidationFailure(cl) ==
  cl.outcome.settled = "rejected" /\ cl.outcome.error.kind = "ValidationError"

\* C8 as claimed: every call of a catalog operation that has ended has updated
\* the last-request time.
C8_EveryCallStamps ==
  \A c \in Calls :
    call[c].pc = "done" => call[c].passedAt # 0 /\ lastRequestTime >= call[c].passedAt

C8_Stamped ==
  \A c \in Calls :
    /\ (call[c].pc \in {"fetching", "backoff", "done"} /\ ~IsValidationFailure(call[c])) =>
         /\ call[c].passedAt >= StartTime
         /\ lastRequestTime >= call[c].passedAt
    /\ IsValidationFailure(call[c]) => call[c].passedAt = 0

C8_Step ==
  \A c \in Calls :
    /\ (call[c].pc \in {"idle", "done", "rateLimit"} /\ call'[c].pc = "fetching") =>
         /\ lastRequestTime' = now
         /\ call'[c].passedAt = now
    /\ (call'[c] # call[c] /\ IsValidationFailure(call'[c])) =>
         lastRequestTime' = lastRequestTime
    /\ (call[c].pc \in {"fetching", "backoff"}) => lastRequestTime' >= lastRequestTime

\* C8 amended: every call of a catalog operation whose parameters pass
\* validation sets the last-request time to the time at which it passes the
\* rate-limit check, before its first fetch, whether it then ends in success, a
\* 4xx, a timeout or exhausted retries; a call rejected by validation leaves the
\* last-request time as it was.
C8_ValidatedCallStamps == []C8_Stamped /\ [][C8_Step]_vars

C8_Witness ==
  \E c, d \in Calls :
    /\ call[c].pc = "done"
    /\ call[c].thrown.kind = "NetworkError"
    /\ call[c].passedAt = lastRequestTime
    /\ call[d].pc = "done"
    /\ IsValidationFailure(call[d])

(***************************************************************************)
(* The player: every action the reducer accepts, dispatched in any order.  *)
(***************************************************************************)
\* the playlists a view hands to the player
Playlists == {<< >>, <<A, B, C>>}

\* the songs played directly and the songs queued
PlayedSongs == {A2, C}

QueuedSongs == {A2, B}

Within(st) == Len(st.queue) <= MaxQueue /\ Len(st.history) <= MaxHistory

Action(type, payload) == [type |-> type, payload |-> payload]

playSong(song, playlist, index) ==
  /\ \E st \in musicPlayerReducer(state,
          Action("SET_CURRENT_SONG",
                 [song |-> song, playlist |-> playlist, index |-> index])) :
       Within(st) /\ state' = st
  /\ UNCHANGED <<apiVars, uiVars>>

setPlaylist(playlist, index) ==
  /\ \E st \in musicPlayerReducer(state,
          Action("SET_PLAYLIST", [playlist |-> playlist, currentIndex |-> index])) :
       Within(st) /\ state' = st
  /\ UNCHANGED <<apiVars, uiVars>>

playNext ==
  /\ \E st \in musicPlayerReducer(state, Action("NEXT_SONG", None)) :
       Within(st) /\ state' = st
  /\ UNCHANGED <<apiVars, uiVars>>

playPrevious ==
  /\ \E st \in musicPlayerReducer(state, Action("PREVIOUS_SONG", None)) :
       Within(st) /\ state' = st
  /\ UNCHANGED <<apiVars, uiVars>>

setPlaying(playing) ==
  /\ \E st \in musicPlayerReducer(state, Action("SET_PLAYING", playing)) :
       Within(st) /\ state' = st
  /\ UNCHANGED <<apiVars, uiVars>>

addToQueue(song) ==
  /\ \E st \in musicPlayerReducer(state, Action("ADD_TO_QUEUE", song)) :
       Within(st) /\ state' = st
  /\ UNCHANGED <<apiVars, uiVars>>

removeFromQueue(index) ==
  /\ \E st \in musicPlayerReducer(state, Action("REMOVE_FROM_QUEUE", index)) :
       Within(st) /\ state' = st
  /\ UNCHANGED <<apiVars, uiVars>>

clearQueue ==
  /\ \E st \in musicPlayerReducer(state, Action("CLEAR_QUEUE", None)) :
       Within(st) /\ state' = st
  /\ UNCHANGED <<apiVars, uiVars>>

setRepeat(mode) ==
  /\ \E st \in musicPlayerReducer(state, Action("SET_REPEAT", mode)) :
       Within(st) /\ state' = st
  /\ UNCHANGED <<apiVars, uiVars>>

toggleShuffle ==
  /\ \E st \in musicPlayerReducer(state, Action("TOGGLE_SHUFFLE", None)) :
       Within(st) /\ state' = st
  /\ UNCHANGED <<apiVars, uiVars>>

clearPlayer ==
  /\ \E st \in musicPlayerReducer(state, Action("CLEAR_PLAYER", None)) :
       Within(st) /\ state' = st
  /\ UNCHANGED <<apiVars, uiVars>>

\* the player alone: the client is constructed and never called
PlayerInit ==
  ApiInit({cfg \in Configs : cfg.maxRetries = 0 /\ cfg.retryDelay = 1
                               /\ cfg.rateLimitDelay = 1},
          [c \in Calls |-> {}], {})

PlayerNext ==
  \/ \E song \in PlayedSongs : playSong(song, None, None)
  \/ \E song \in PlayedSongs : \E playlist \in Playlists : \E index \in {0, 2} :
       playSong(song, Some(playlist), Some(index))
  \/ \E playlist \in Playlists : \E index \in {None, Some(2)} :
       setPlaylist(playlist, index)
  \/ playNext
  \/ playPrevious
  \/ \E playing \in BOOLEAN : setPlaying(playing)
  \/ \E song \in QueuedSongs : addToQueue(song)
  \/ \E index \in -1..MaxQueue : removeFromQueue(index)
  \/ clearQueue
  \/ \E mode \in {"none", "one", "all"} : setRepeat(mode)
  \/ toggleShuffle
  \/ clearPlayer

PlayerSpec == PlayerInit /\ [][PlayerNext]_vars

(***************************************************************************)
(* The player fed with distinct tracks, one after the other: played        *)
(* directly, or queued and reached with Next; Previous walks back.         *)
(***************************************************************************)
\* the n-th distinct track
Track(n) == Song(ToString(n), n)

RECURSIVE newestOf(_)
newestOf(songs) ==
  IF Len(songs) = 0 THEN 0
  ELSE LET rest == newestOf(Tail(songs))
       IN IF Head(songs).ref > rest THEN Head(songs).ref ELSE rest

\* the number of the newest track the player holds
Newest == newestOf(<<state.currentSong>> \o state.history \o state.queue)

\* a track the player has not seen
FreshTrack == Track(Newest + 1)

\* the listener plays, queues and walks back one track at a time
playFresh ==
  /\ Newest < MaxTracks
  /\ Len(state.queue) = 0
  /\ \E st \in musicPlayerReducer(state,
          Action("SET_CURRENT_SONG",
                 [song |-> FreshTrack, playlist |-> None, index |-> None])) :
       state' = st
  /\ UNCHANGED <<apiVars, uiVars>>

queueFresh ==
  /\ Newest < MaxTracks
  /\ Len(state.queue) = 0
  /\ \E st \in musicPlayerReducer(state, Action("ADD_TO_QUEUE", FreshTrack)) :
       state' = st
  /\ UNCHANGED <<apiVars, uiVars>>

skipForward ==
  /\ \E st \in musicPlayerReducer(state, Action("NEXT_SONG", None)) : state' = st
  /\ UNCHANGED <<apiVars, uiVars>>

skipBack ==
  /\ Len(state.queue) = 0
  /\ \E st \in musicPlayerReducer(state, Action("PREVIOUS_SONG", None)) : state' = st
  /\ UNCHANGED <<apiVars, uiVars>>

HistoryNext ==
  \/ playFresh
  \/ queueFresh
  \/ skipForward
  \/ skipBack

HistorySpec == PlayerInit /\ [][HistoryNext]_vars

\* tracks are queued one after the other and reached with Next
queueAnother ==
  /\ Newest < MaxQueued
  /\ \E st \in musicPlayerReducer(state, Action("ADD_TO_QUEUE", FreshTrack)) :
       state' = st
  /\ UNCHANGED <<apiVars, uiVars>>

QueueNext ==
  \/ queueAnother
  \/ skipForward

QueueSpec == PlayerInit /\ [][QueueNext]_vars

(***************************************************************************)
(* playTrack: the steps of one call.                                       *)
(***************************************************************************)
\* as afterGetSongs, playing data[0] without looking at success and length
afterGetSongsUnchecked(st, outcome) ==
  IF outcome.settled = "rejected" THEN {st}
  ELSE IF outcome.data # None
  THEN musicPlayerReducer(st,
         Action("SET_CURRENT_SONG",
                [song |-> at(outcome.data[1], 0), playlist |-> None, index |-> None]))
  ELSE {st}

\* the player state playTrack leaves once getSongs has settled with outcome
afterGetSongs(st, outcome) ==
  IF outcome.settled = "rejected" THEN {st}
  ELSE IF outcome.success /\ outcome.data # None /\ Len(outcome.data[1]) > 0
  THEN musicPlayerReducer(st,
         Action("SET_CURRENT_SONG",
                [song |-> outcome.data[1][1], playlist |-> None, index |-> None]))
  ELSE {st}

\* playTrack(trackId) up to its await
playTrack ==
  /\ loader.pc \in {"idle", "done"}
  /\ loader' = [IdleLoader EXCEPT !.pc = "loading", !.before = state]
  /\ UNCHANGED <<apiVars, state, proxy, hook, audio>>

\* getSongs settles: the rest of the try block, or the catch block
getSongsSettles(outcome) ==
  /\ loader.pc = "loading"
  /\ \E st \in afterGetSongs(state, outcome) : Within(st) /\ state' = st
  /\ loader' = [loader EXCEPT !.pc = "done", !.outcome = outcome]
  /\ UNCHANGED <<apiVars, proxy, hook, audio>>

\* playTrack among the actions of a listener
LoaderNext ==
  \/ playTrack
  \/ \E outcome \in GetSongsOutcomes : getSongsSettles(outcome)
  \/ \E song \in QueuedSongs : addToQueue(song)
  \/ playNext

LoaderSpec == PlayerInit /\ [][LoaderNext]_vars

(***************************************************************************)
(* NowPlaying: the effects and handlers that drive the audio element.      *)
(***************************************************************************)
\* the effect on song?.id: a song that is not the loaded one is loaded
loadSong ==
  /\ state.currentSong # null
  /\ state.currentSong.id # audio.loadedSongId
  /\ audio' = [pc |-> "loading", loadedSongId |-> state.currentSong.id,
               isPlaying |-> FALSE]
  /\ UNCHANGED <<apiVars, state, proxy, hook, loader>>

\* 'canplay' of the loaded source: audio.play() resolves, or rejects (the
\* browser refuses to start playback)
handleCanPlay(started) ==
  /\ audio.pc = "loading"
  /\ audio' = [audio EXCEPT !.pc = IF started THEN "playing" ELSE "paused",
                            !.isPlaying = started]
  /\ UNCHANGED <<apiVars, state, proxy, hook, loader>>

\* 'ended' of the audio element: setIsPlaying(false), playNext()
handleEnded ==
  /\ audio.pc = "playing"
  /\ audio' = [audio EXCEPT !.pc = "ended", !.isPlaying = FALSE]
  /\ \E st \in musicPlayerReducer(state, Action("NEXT_SONG", None)) :
       Within(st) /\ state' = st
  /\ UNCHANGED <<apiVars, proxy, hook, loader>>

\* the listener presses play / pause
togglePlayPause ==
  /\ audio.pc \in {"playing", "paused", "ended"}
  /\ audio' = IF audio.isPlaying
              THEN [audio EXCEPT !.pc = "paused", !.isPlaying = FALSE]
              ELSE [audio EXCEPT !.pc = "playing", !.isPlaying = TRUE]
  /\ UNCHANGED <<apiVars, state, proxy, hook, loader>>

AudioNext ==
  \/ \E song \in PlayedSongs : playSong(song, None, None)
  \/ \E song \in QueuedSongs : addToQueue(song)
  \/ \E mode \in {"none", "one"} : setRepeat(mode)
  \/ loadSong
  \/ \E started \in BOOLEAN : handleCanPlay(started)
  \/ handleEnded
  \/ togglePlayPause

\* React runs the effect after the render; the media element reports canplay
\* and audio.play() settles; what the listener does is up to the listener
AudioFairness ==
  /\ WF_vars(loadSong)
  /\ WF_vars(\E started \in BOOLEAN : handleCanPlay(started))

AudioSpec == PlayerInit /\ [][AudioNext]_vars /\ AudioFairness

(***************************************************************************)
(* Claims about the reducer.                                               *)
(***************************************************************************)
\* history with song pushed: at most 50 entries, the oldest dropped first
Pushed(history, song) ==
  IF Len(history) < 50 THEN Append(history, song) ELSE Append(Tail(history), song)

\* C9: Next with a non-empty queue plays the queue head whatever repeat and
\* shuffle are: currentSong becomes the former head, the queue its former tail,
\* the prior currentSong (if any) is pushed onto history, and currentIndex,
\* playlist and the modes are unchanged.
C9_QueueBeatsRepeat ==
  Len(state.queue) > 0 =>
    \A st \in musicPlayerReducer(state, Action("NEXT_SONG", None)) :
      /\ st.currentSong = Head(state.queue)
      /\ st.queue = Tail(state.queue)
      /\ st.history = IF state.currentSong = null THEN state.history
                      ELSE Pushed(state.history, state.currentSong)
      /\ st.currentIndex = state.currentIndex
      /\ st.playlist = state.playlist
      /\ st.repeat = state.repeat
      /\ st.shuffle = state.shuffle
      /\ st.isPlaying = state.isPlaying

C9_Witness ==
  /\ state.queue = <<A2, B>>
  /\ state.repeat = "one"
  /\ state.shuffle
  /\ state.currentSong = C
  /\ state.history = << >>
  /\ \E st \in musicPlayerReducer(state, Action("NEXT_SONG", None)) :
       st.currentSong = A2 /\ st.queue = <<B>> /\ st.history = <<C>>

\* C10: Next with an empty queue and repeat = "one" returns the state it was
\* given, for every shuffle, playlist and currentIndex.
C10_RepeatOneUnchanged ==
  (Len(state.queue) = 0 /\ state.repeat = "one") =>
    musicPlayerReducer(state, Action("NEXT_SONG", None)) = {state}

C10_Witness ==
  /\ Len(state.queue) = 0
  /\ state.repeat = "one"
  /\ state.shuffle
  /\ state.playlist = <<A, B, C>>
  /\ state.currentIndex = 0
  /\ state.currentSong = A
  /\ musicPlayerReducer(state, Action("NEXT_SONG", None)) = {state}

\* the states Next may lead to from the current state
NextStates == musicPlayerReducer(state, Action("NEXT_SONG", None))

\* Next is taken at the last position of a playlist, with nothing queued and
\* shuffle off
AtLastIndex ==
  /\ Len(state.queue) = 0
  /\ ~state.shuffle
  /\ Len(state.playlist) > 0
  /\ state.currentIndex = Len(state.playlist) - 1

\* C11: Next at the last playlist index with an empty queue, shuffle off and
\* repeat = "none" sets isPlaying to false and changes nothing else:
\* currentSong, currentIndex, playlist, queue and history are as before.
C11_EndOfPlaylistStops ==
  (AtLastIndex /\ state.repeat = "none") =>
    NextStates = {[state EXCEPT !.isPlaying = FALSE]}

C11_Witness ==
  /\ AtLastIndex
  /\ state.repeat = "none"
  /\ state.isPlaying
  /\ state.currentSong = C
  /\ state.history # << >>
  /\ \E st \in NextStates : ~st.isPlaying /\ st.currentSong = C /\ st.currentIndex = 2

\* C12: Next at the last playlist index with an empty queue, shuffle off and
\* repeat = "all" wraps: currentIndex becomes 0, currentSong becomes playlist[0],
\* the prior currentSong (if any) is pushed onto history, and nothing else
\* changes.
C12_RepeatAllWraps ==
  (AtLastIndex /\ state.repeat = "all") =>
    NextStates =
      {[state EXCEPT !.currentIndex = 0,
                     !.currentSong = state.playlist[1],
                     !.history = IF state.currentSong = null THEN @
                                 ELSE Pushed(@, state.currentSong)]}

C12_Witness ==
  /\ AtLastIndex
  /\ state.repeat = "all"
  /\ state.currentSong = C
  /\ state.history = <<A2>>
  /\ \E st \in NextStates :
       st.currentIndex = 0 /\ st.currentSong = A /\ st.history = <<A2, C>>

\* one action of every kind that writes currentSong or history
HistoryActions ==
  {Action("SET_CURRENT_SONG", [song |-> FreshTrack, playlist |-> None, index |-> None]),
   Action("SET_CURRENT_SONG", [song |-> state.currentSong, playlist |-> None, index |-> None]),
   Action("SET_PLAYLIST", [playlist |-> << >>, currentIndex |-> None]),
   Action("NEXT_SONG", None),
   Action("PREVIOUS_SONG", None),
   Action("ADD_TO_QUEUE", FreshTrack),
   Action("CLEAR_PLAYER", None)}

\* C13: history never holds more than 50 entries, in the state reached and
\* after any further action; an action adds at most one entry; and a push onto
\* a history of 50 evicts the oldest entry and keeps the others in order, with
\* the pushed track last.
C13_HistoryCap ==
  /\ Len(state.history) <= 50
  /\ \A action \in HistoryActions : \A st \in musicPlayerReducer(state, action) :
       /\ Len(st.history) <= 50
       /\ Len(st.history) <= Len(state.history) + 1
       /\ (Len(state.history) = 50 /\ Len(st.history) = 50 /\ st.history # state.history) =>
            st.history = Tail(state.history) \o <<state.currentSong>>

C13_Witness ==
  /\ Len(state.history) = 50
  /\ state.history[1] = Track(2)
  /\ state.history[50] = Track(51)
  /\ state.currentSong = Track(52)
  /\ \E st \in musicPlayerReducer(state,
          Action("SET_CURRENT_SONG",
                 [song |-> FreshTrack, playlist |-> None, index |-> None])) :
       /\ Len(st.history) = 50
       /\ st.history[1] = Track(3)
       /\ st.history[50] = Track(52)

\* the states Previous may lead to from the current state
PreviousStates == musicPlayerReducer(state, Action("PREVIOUS_SONG", None))

\* the track at position i of the current playlist, none outside of it
PlaylistTrack(i) ==
  IF i >= 0 /\ i < Len(state.playlist) THEN state.playlist[i + 1] ELSE null

\* C14: Previous with an empty history and a defined currentIndex: above the
\* first position it decrements currentIndex and sets currentSong to the track
\* at the new position; at the first position (or before it) it wraps to the
\* last position when repeat = "all" and otherwise returns the state unchanged.
C14_PreviousWithoutHistory ==
  (Len(state.history) = 0 /\ state.currentIndex # NotANumber) =>
    PreviousStates =
      {IF state.currentIndex >= 1
       THEN [state EXCEPT !.currentIndex = state.currentIndex - 1,
                          !.currentSong = PlaylistTrack(state.currentIndex - 1)]
       ELSE IF state.repeat = "all"
       THEN [state EXCEPT !.currentIndex = Len(state.playlist) - 1,
                          !.currentSong = PlaylistTrack(Len(state.playlist) - 1)]
       ELSE state}

\* Previous after SetPlaylist([A, B, C], 0) with repeat = "none" stays at A
C14_Witness ==
  /\ Len(state.history) = 0
  /\ state.playlist = <<A, B, C>>
  /\ state.currentIndex = 0
  /\ state.currentSong = A
  /\ state.repeat = "none"
  /\ PreviousStates = {state}

\* the position of the first playlist entry with the identifier of song, -1
\* when there is none
PositionOf(song) ==
  IF \E k \in 1..Len(state.playlist) : state.playlist[k].id = song.id
  THEN (CHOOSE k \in 1..Len(state.playlist) :
          /\ state.playlist[k].id = song.id
          /\ \A j \in 1..(k - 1) : state.playlist[j].id # song.id) - 1
  ELSE -1

\* C15: Previous with a non-empty history makes the last history entry the
\* currentSong and removes it from history; currentIndex becomes the position
\* of the playlist entry with that track's identifier, or stays as it was when
\* there is none; queue, playlist, the modes and isPlaying are unchanged.
C15_PreviousPopsHistory ==
  Len(state.history) > 0 =>
    LET last == state.history[Len(state.history)] IN
    PreviousStates =
      {[state EXCEPT !.currentSong = last,
                     !.history = SubSeq(state.history, 1, Len(state.history) - 1),
                     !.currentIndex = IF PositionOf(last) = -1 THEN @
                                      ELSE PositionOf(last)]}

C15_Witness ==
  /\ state.history = <<C, A2>>
  /\ state.playlist = <<A, B, C>>
  /\ state.currentIndex = 2
  /\ \E st \in PreviousStates :
       st.currentSong = A2 /\ st.currentIndex = 0 /\ st.history = <<C>>

\* the states playing song directly may lead to from the current state
PlayStates(song) ==
  musicPlayerReducer(state,
    Action("SET_CURRENT_SONG", [song |-> song, playlist |-> None, index |-> None]))

\* the current song is the most recent entry of history
IsMostRecent ==
  Len(state.history) > 0 /\ state.history[Len(state.history)] = state.currentSong

\* C16 as claimed: SET_CURRENT_SONG pushes the previous currentSong onto history
\* exactly when there is one and it is not the last history entry, so a
\* previous song that is in history before the last entry is pushed again.
C16_PushUnlessMostRecent ==
  \A song \in PlayedSongs : \A st \in PlayStates(song) :
    st.history = IF state.currentSong # null /\ ~IsMostRecent
                 THEN Pushed(state.history, state.currentSong)
                 ELSE state.history

\* the states SetPlaylist may lead to from the current state
PlaylistStates(playlist, index) ==
  musicPlayerReducer(state,
    Action("SET_PLAYLIST", [playlist |-> playlist, currentIndex |-> index]))

\* C17: SetPlaylist(playlist, index?) replaces playlist, sets currentIndex to
\* the given index, or to 0 when none is given, and sets currentSong to the
\* track of the new playlist at that position, or to none when there is no
\* such track (the playlist is empty); queue, history, repeat, shuffle and
\* isPlaying are unchanged.
C17_SetPlaylistReplaces ==
  \A playlist \in Playlists : \A index \in {None, Some(0), Some(2)} :
    LET i == IF index = None THEN 0 ELSE index[1] IN
    PlaylistStates(playlist, index) =
      {[state EXCEPT !.playlist = playlist,
                     !.currentIndex = i,
                     !.currentSong = IF i < Len(playlist) THEN playlist[i + 1] ELSE null]}

C17_Witness ==
  /\ state.playlist = << >>
  /\ state.currentIndex = 2
  /\ state.currentSong = C
  /\ Len(state.queue) > 0
  /\ Len(state.history) > 0
  /\ \E st \in PlaylistStates(<<A, B, C>>, None) :
       /\ st.currentIndex = 0 /\ st.currentSong = A
       /\ st.queue = state.queue /\ st.history = state.history
  /\ \E st \in PlaylistStates(<< >>, Some(2)) :
       st.currentIndex = 2 /\ st.currentSong = null

\* C18: Next with an empty queue, repeat other than "one" and shuffle on, on a
\* playlist of at least 2 tracks, leads to exactly the states in which
\* currentIndex is a playlist position other than the prior currentIndex,
\* currentSong is the track at that position and the prior currentSong (if
\* any) is pushed onto history; every such position is a possible outcome and
\* nothing else changes.
C18_ShuffleAvoidsCurrent ==
  (/\ Len(state.queue) = 0
   /\ state.repeat # "one"
   /\ state.shuffle
   /\ Len(state.playlist) >= 2) =>
    NextStates =
      {[state EXCEPT !.currentIndex = i,
                     !.currentSong = state.playlist[i + 1],
                     !.history = IF state.currentSong = null THEN @
                                 ELSE Pushed(@, state.currentSong)] :
         i \in (0..(Len(state.playlist) - 1)) \ {state.currentIndex}}

C18_Witness ==
  /\ Len(state.queue) = 0
  /\ state.repeat = "none"
  /\ state.shuffle
  /\ state.playlist = <<A, B, C>>
  /\ state.currentIndex = 2
  /\ state.currentSong = C
  /\ {st.currentIndex : st \in NextStates} = {0, 1}
  /\ \A st \in NextStates : st.history = Append(state.history, C)

\* currentIndex of st is a position of its playlist
IndexDefined(st) == st.currentIndex >= 0 /\ st.currentIndex < Len(st.playlist)

\* currentSong of st is the track at its currentIndex
Consistent(st) == st.currentSong = st.playlist[st.currentIndex + 1]

\* C19 as claimed: after any Next or Previous, whenever currentIndex is a
\* position of playlist, currentSong is the track at that position.
C19_IndexTrackConsistent ==
  \A st \in NextStates \cup PreviousStates : IndexDefined(st) => Consistent(st)

\* Next moves through the playlist: nothing is queued, repeat is not "one",
\* and the playlist does not end here (or wraps, or is shuffled)
NextMoves ==
  /\ Len(state.queue) = 0
  /\ state.repeat # "one"
  /\ \/ state.shuffle
     \/ state.repeat = "all"
     \/ state.currentIndex = NotANumber
     \/ state.currentIndex + 1 < Len(state.playlist)

\* Previous moves through the playlist: history is empty, and currentIndex is
\* above the first position (or wraps)
PreviousMoves ==
  /\ Len(state.history) = 0
  /\ \/ state.repeat = "all"
     \/ state.currentIndex = NotANumber
     \/ state.currentIndex >= 1

\* C19 amended: after a Next or a Previous that moves through the playlist,
\* currentSong is the track at currentIndex whenever currentIndex is a position
\* of playlist, and none otherwise; after a Previous that pops a history entry
\* found in playlist, currentSong has the identifier of the track at
\* currentIndex. (Next from the queue, Next stopping at the end or held by
\* repeat-one, Previous held at the first position and Previous popping a
\* track that is not in playlist leave currentIndex as it was.)
C19_MovesKeepConsistent ==
  /\ NextMoves =>
       \A st \in NextStates :
         IF IndexDefined(st) THEN Consistent(st) ELSE st.currentSong = null
  /\ PreviousMoves =>
       \A st \in PreviousStates :
         IF IndexDefined(st) THEN Consistent(st) ELSE st.currentSong = null
  /\ (Len(state.history) > 0
        /\ PositionOf(state.history[Len(state.history)]) # -1) =>
       \A st \in PreviousStates :
         /\ IndexDefined(st)
         /\ st.currentSong.id = st.playlist[st.currentIndex + 1].id
  /\ (~NextMoves /\ Len(state.queue) = 0) =>
       \A st \in NextStates :
         st.currentIndex = state.currentIndex /\ st.currentSong = state.currentSong
  /\ Len(state.queue) > 0 =>
       \A st \in NextStates : st.currentIndex = state.currentIndex

\* the track played directly is not the one at currentIndex; Next moves on and
\* the two agree again
C19_Witness ==
  /\ state.playlist = <<A, B, C>>
  /\ state.currentIndex = 0
  /\ state.currentSong = A2
  /\ NextMoves
  /\ ~state.shuffle
  /\ \E st \in NextStates : st.currentIndex = 1 /\ st.currentSong = B

\* the actions the player dispatches
PlayerActions ==
  {Action("SET_CURRENT_SONG", [song |-> song, playlist |-> None, index |-> None]) :
     song \in PlayedSongs}
  \cup {Action("SET_PLAYLIST", [playlist |-> playlist, currentIndex |-> None]) :
          playlist \in Playlists}
  \cup {Action("ADD_TO_QUEUE", song) : song \in QueuedSongs}
  \cup {Action("REMOVE_FROM_QUEUE", index) : index \in -1..MaxQueue}
  \cup {Action("SET_REPEAT", mode) : mode \in {"none", "one", "all"}}
  \cup {Action("SET_PLAYING", playing) : playing \in BOOLEAN}
  \cup {Action(type, None) :
          type \in {"NEXT_SONG", "PREVIOUS_SONG", "CLEAR_QUEUE", "TOGGLE_SHUFFLE",
                    "CLEAR_PLAYER"}}

\* C20 as claimed: the reducer is deterministic: applied to the same state and
\* the same action it yields one and the same next state.
C20_ReducerDeterministic ==
  \A action \in PlayerActions :
    \A s1, s2 \in musicPlayerReducer(state, action) : s1 = s2

\* the states RemoveFromQueue(i) may lead to from the current state
RemoveStates(i) == musicPlayerReducer(state, Action("REMOVE_FROM_QUEUE", i))

\* C21: RemoveFromQueue(i) with i outside 0..length-1 returns a state equal to
\* the one it was given; with i in range the queue loses exactly the element
\* at position i, the others keep their order, and no other field changes.
C21_RemoveFromQueueByPosition ==
  \A i \in -1..(MaxQueue + 1) :
    RemoveStates(i) =
      {IF i >= 0 /\ i < Len(state.queue)
       THEN [state EXCEPT !.queue =
               [k \in 1..(Len(state.queue) - 1) |->
                  IF k <= i THEN state.queue[k] ELSE state.queue[k + 1]]]
       ELSE state}

C21_Witness ==
  /\ state.queue = <<A2, B>>
  /\ state.currentSong # null
  /\ RemoveStates(0) = {[state EXCEPT !.queue = <<B>>]}
  /\ RemoveStates(1) = {[state EXCEPT !.queue = <<A2>>]}
  /\ RemoveStates(2) = {state}
  /\ RemoveStates(-1) = {state}

\* the tracks that were current, the current one and those waiting, in a row
PlayOrder ==
  state.history
    \o (IF state.currentSong = null THEN << >> ELSE <<state.currentSong>>)
    \o state.queue

\* C22: the queue is FIFO: over any sequence of AddToQueue and Next, the
\* tracks that have become currentSong from the queue (history, then the
\* current one) followed by the tracks still waiting are the tracks in the
\* order in which they were added: AddToQueue appends at the tail, Next takes
\* the head, and no track is skipped or reordered.
C22_QueueIsFifo ==
  /\ PlayOrder = [k \in 1..Len(PlayOrder) |-> Track(k)]
  /\ \A st \in musicPlayerReducer(state, Action("ADD_TO_QUEUE", FreshTrack)) :
       st.queue = Append(state.queue, FreshTrack)
  /\ Len(state.queue) > 0 =>
       \A st \in NextStates :
         st.currentSong = Head(state.queue) /\ st.queue = Tail(state.queue)

C22_Witness ==
  /\ state.history = <<Track(1), Track(2)>>
  /\ state.currentSong = Track(3)
  /\ state.queue = <<Track(4), Track(5), Track(6)>>

(***************************************************************************)
(* Claims about the proxy function.                                        *)
(***************************************************************************)
\* the four CORS headers every response is to carry
FullCorsSet ==
  {"Access-Control-Allow-Credentials", "Access-Control-Allow-Origin",
   "Access-Control-Allow-Methods", "Access-Control-Allow-Headers"}

\* C23: an OPTIONS request is answered with status 200 and an empty body, with
\* the four CORS headers set, and without a request to the upstream (none is
\* issued and none is pending); every response to any other request carries
\* the four CORS headers as well.
C23_OptionsShortCut ==
  /\ proxy.responses > 0 => FullCorsSet \subseteq proxy.headers
  /\ proxy.pc = "fetching" => FullCorsSet \subseteq proxy.headers
  /\ (proxy.pc # "idle" /\ proxy.method = "OPTIONS") =>
       /\ proxy.pc = "done"
       /\ proxy.status = 200
       /\ proxy.body = EmptyBody
       /\ proxy.responses = 1
       /\ proxy.fetches = 0

C23_Witness ==
  /\ proxy.pc = "done"
  /\ proxy.method = "OPTIONS"
  /\ proxy.status = 200
  /\ proxy.fetches = 0
  /\ FullCorsSet \subseteq proxy.headers

\* C24: a request other than OPTIONS gets exactly one response, sent when the
\* upstream fetch settles and not before: the upstream's status with the
\* upstream's parsed JSON body when the upstream answered with JSON, and
\* status 500 with an {error, message} body when the fetch failed or the
\* upstream's body is not JSON; one request goes to the upstream, at the path
\* and query of the request.
C24_OneResponse ==
  /\ proxy.responses <= 1
  /\ proxy.pc = "done" <=> proxy.responses = 1
  /\ (proxy.pc # "idle" /\ proxy.method # "OPTIONS") =>
       /\ proxy.fetches = 1
       /\ proxy.apiUrl.path \in Paths
       /\ proxy.pc = "done" =>
            \/ proxy.body.kind = "json" /\ proxy.body.data.parsed
            \/ proxy.body.kind = "error" /\ proxy.status = 500
  /\ proxy.pc = "fetching" =>
       \A r \in upstream :
         LET res == relay(proxy, r)
             forwarded == r.type = "response"
                            /\ r.body \in {"{\"success\":true}", "{\"success\":false}"}
         IN /\ res.pc = "done"
            /\ res.responses = 1
            /\ res.fetches = 1
            /\ res.headers = proxy.headers
            /\ forwarded =>
                 /\ res.status = r.status
                 /\ res.body.kind = "json"
                 /\ res.body.data.success = (r.body = "{\"success\":true}")
            /\ ~forwarded => res.status = 500 /\ res.body.kind = "error"

\* a 404 of the upstream relayed with its JSON body
C24_Witness ==
  /\ proxy.pc = "done"
  /\ proxy.method = "GET"
  /\ proxy.status = 404
  /\ proxy.body = JsonBody([parsed |-> TRUE, success |-> FALSE])
  /\ proxy.responses = 1

(***************************************************************************)
(* Claims about the view layer.                                            *)
(***************************************************************************)
InFlight == {e \in Executions : hook.execution[e].pc = "pending"}

\* the execution started last
Latest ==
  CHOOSE e \in Executions :
    \A d \in Executions : hook.execution[d].seq <= hook.execution[e].seq

\* C25 as claimed: once no execution of the hook is in flight, data and error
\* show the outcome of the execution started last; and loading is false
\* exactly when no execution is in flight.
C25_LatestExecutionWins ==
  /\ (hook.started > 0 /\ InFlight = {}) =>
       IF hook.execution[Latest].pc = "fulfilled"
       THEN hook.data = hook.execution[Latest].seq /\ hook.error = 0
       ELSE hook.error = hook.execution[Latest].seq
  /\ ~hook.loading <=> InFlight = {}

\* playTrack failed: getSongs rejected, or its response is unsuccessful or
\* carries no track
FailedOutcome(outcome) ==
  \/ outcome.settled = "rejected"
  \/ ~outcome.success
  \/ outcome.data = None
  \/ outcome.data = Some(<< >>)

\* C26: a failed playTrack (getSongs rejects, or its response is unsuccessful,
\* has no data or has an empty data array) dispatches no action: in every
\* state the player may be in when getSongs settles, the state playTrack
\* leaves is the state it found; and nothing is thrown out of playTrack.
C26_FailedPlayTrackKeepsState ==
  /\ \A outcome \in GetSongsOutcomes :
       FailedOutcome(outcome) => afterGetSongs(state, outcome) = {state}
  /\ ~loader.thrown
  /\ loader.pc = "done" => loader.outcome \in GetSongsOutcomes

C26_Witness ==
  /\ loader.pc = "done"
  /\ loader.outcome = GetSongsResponse(TRUE, Some(<< >>))
  /\ state.currentSong = B
  /\ Len(state.history) > 0
  /\ state = loader.before

\* C27 as claimed: when the audio element reports 'ended' while repeat is
\* "one" and the queue is empty, the current track eventually plays again.
C27_RepeatOneRepeats ==
  (/\ audio.pc = "ended"
   /\ state.repeat = "one"
   /\ Len(state.queue) = 0
   /\ state.currentSong # null)
    ~> (audio.pc = "playing")

====
